---- MODULE Spec2Model ----
(***************************************************************************)
(* RoboEyes animation engine (src/roboeyes_pygame.py): the timed-step      *)
(* sequences, the blink / wink micro-animations, the mood flags and the    *)
(* per-tick update with its halfway interpolation.                         *)
(*                                                                         *)
(* The engine object is one record, robo, whose fields carry the names of  *)
(* the attributes of class RoboEyes.  Every method is an operator from the *)
(* object before the call (self) to the object after it, so a method that  *)
(* calls another one is the composition of the two operators.  The clock   *)
(* pygame.time.get_ticks() is the variable now; one update() reads it      *)
(* once.  Python's None is the empty tuple and a present value v is <<v>>. *)
(***************************************************************************)
EXTENDS Integers, Sequences, FiniteSets, TLC

VARIABLES
    robo,      \* the RoboEyes instance
    now,       \* pygame.time.get_ticks(), in ms
    op,        \* the latest call made on the engine ("init" before any, "tick" for the clock)
    raised,    \* the exception the latest call propagated, "" when it returned
    fired,     \* the step callbacks the latest call invoked, in order, as <<sequence, step>>
    app,       \* the globals of the sensor application (src/animation2.py)
    held       \* the clock reading at which the distance reading entered its present zone

vars == <<robo, now, op, raised, fired, app, held>>

-----------------------------------------------------------------------------
(* Module constants, src/roboeyes_pygame.py lines 35-42 *)
DEFAULT == 0
TIRED == 1
ANGRY == 2
HAPPY == 3
FROZEN == 4
SCARY == 5
CURIOUS == 6
SAD == 7

ON == 1
OFF == 0

\* the compass directions of the position setter
N == 1
NE == 2
E == 3
SE == 4
S == 5
SW == 6
W == 7
NW == 8

Moods == {DEFAULT, TIRED, ANGRY, HAPPY, FROZEN, SCARY, CURIOUS, SAD}

(* Construction arguments used by both applications (animation.py line 5) *)
WIDTH == 400
HEIGHT == 200
(* RoboEyes.__init__ default frame_rate *)
FrameRate == 30
(* the reopen delay of _schedule_open and the minimum (closed) height *)
ReopenDelay == 120
ClosedHeight == 1

-----------------------------------------------------------------------------
(* Python values *)
None == <<>>
Some(v) == <<v>>
Val(o) == o[1]
\* truth value of an optional boolean argument: None and False are falsy
Truthy(o) == o # None /\ Val(o) = TRUE
OptBool == {None, Some(FALSE), Some(TRUE)}

-----------------------------------------------------------------------------
(* class StepData and class Sequence *)

\* StepData.__init__; the callback is the closure reopen of _schedule_open,
\* which captures left and right
StepData(ms_timing, left, right) ==
    [done |-> FALSE, ms_timing |-> ms_timing, callback |-> [left |-> left, right |-> right]]

\* Sequence.__init__
Sequence(name) == [name |-> name, _start |-> None, steps |-> <<>>]

\* a reopen that restores the left eye whatever it captured and never the right
reopen_left_only(self, left, right) ==
    [self EXCEPT !.eye_l_height_next = self.eye_l_height_default, !.eye_l_open = TRUE]

\* the closure reopen(robo) defined in _schedule_open
reopen(self, left, right) ==
    LET a == IF left
             THEN [self EXCEPT !.eye_l_height_next = self.eye_l_height_default,
                               !.eye_l_open = TRUE]
             ELSE self
    IN  IF right /\ ~a._cyclops
        THEN [a EXCEPT !.eye_r_height_next = a.eye_r_height_default,
                       !.eye_r_open = TRUE]
        ELSE a

\* a StepData.update that runs the callback and leaves the step not done
StepData_update_not_marked(st, i, j, ticks) ==
    LET seq == st.self.sequences[i]
        s == seq.steps[j]
    IN  IF s.done THEN st
        ELSE IF ticks - Val(seq._start) < s.ms_timing THEN st
        ELSE [self |-> reopen(st.self, s.callback.left, s.callback.right),
              fired |-> Append(st.fired, <<i, j>>)]

\* StepData.update(ticks), on step j of sequence i.  st is the engine together
\* with the callbacks run so far in this call: [self, fired]
StepData_update(st, i, j, ticks) ==
    LET seq == st.self.sequences[i]
        s == seq.steps[j]
    IN  IF s.done THEN st
        ELSE IF ticks - Val(seq._start) < s.ms_timing THEN st
        ELSE LET called == reopen(st.self, s.callback.left, s.callback.right)
             IN  [self |-> [called EXCEPT !.sequences[i].steps[j].done = TRUE],
                  fired |-> Append(st.fired, <<i, j>>)]

\* Sequence.update: the loop `for s in self`, from step j on
RECURSIVE Sequence_steps(_, _, _, _)
Sequence_steps(st, i, j, ticks) ==
    IF j > Len(st.self.sequences[i].steps) THEN st
    ELSE Sequence_steps(IF ~st.self.sequences[i].steps[j].done
                        THEN StepData_update(st, i, j, ticks)
                        ELSE st,
                        i, j + 1, ticks)

\* Sequence.update(ticks), on sequence i
Sequence_update(st, i, ticks) ==
    IF st.self.sequences[i]._start = None THEN st
    ELSE Sequence_steps(st, i, 1, ticks)

\* Sequences.update: the loop `for seq in self`, from sequence i on
RECURSIVE Sequences_loop(_, _, _)
Sequences_loop(st, i, ticks) ==
    IF i > Len(st.self.sequences) THEN st
    ELSE Sequences_loop(Sequence_update(st, i, ticks), i + 1, ticks)

\* Sequences.update()
Sequences_update(self, ticks) ==
    Sequences_loop([self |-> self, fired |-> <<>>], 1, ticks)

\* Sequences.add(name) followed by seq.step(ms_timing, callback)
Sequences_add(self, name) ==
    [self EXCEPT !.sequences = Append(@, Sequence(name))]

\* Sequence.step(ms_timing, callback), on sequence i
Sequence_step(self, i, ms_timing, left, right) ==
    [self EXCEPT !.sequences[i].steps = Append(@, StepData(ms_timing, left, right))]

\* Sequence.start(), on sequence i, at clock reading t
Sequence_start(self, i, t) ==
    [self EXCEPT !.sequences[i]._start = Some(t)]

\* Sequence.reset(), on sequence i
Sequence_reset(self, i) ==
    [self EXCEPT !.sequences[i] =
        [@ EXCEPT !._start = None,
                  !.steps = [j \in 1..Len(@) |-> [@[j] EXCEPT !.done = FALSE]]]]

-----------------------------------------------------------------------------
(* class RoboEyes *)

\* RoboEyes.set_framerate: the value of frame_interval
frame_interval_of(fps) == IF fps > 0 THEN 1000 \div fps ELSE 33

\* RoboEyes.__init__(surface, width, height, frame_rate) at clock reading t
RoboEyes(width, height, frame_rate, t) ==
    [ screen_width |-> width,
      screen_height |-> height,
      sequences |-> <<>>,
      frame_interval |-> frame_interval_of(frame_rate),
      fps_timer |-> 0,
      space_between_default |-> 60,
      space_between_current |-> 60,
      space_between_next |-> 60,
      eye_l_width_default |-> 80,
      eye_l_height_default |-> 80,
      eye_r_width_default |-> 80,
      eye_r_height_default |-> 80,
      eye_l_width_current |-> 80,
      eye_l_height_current |-> 80,
      eye_r_width_current |-> 80,
      eye_r_height_current |-> 80,
      eye_l_width_next |-> 80,
      eye_l_height_next |-> 80,
      eye_r_width_next |-> 80,
      eye_r_height_next |-> 80,
      eye_l_radius_default |-> 30,
      eye_r_radius_default |-> 30,
      eye_l_radius_current |-> 30,
      eye_r_radius_current |-> 30,
      eye_l_radius_next |-> 30,
      eye_r_radius_next |-> 30,
      eye_l_y_default |-> (height - 80) \div 2,
      eye_l_x |-> (width - (80 + 60 + 80)) \div 2,
      eye_l_y |-> (height - 80) \div 2,
      eye_r_x |-> (width - (80 + 60 + 80)) \div 2 + 80 + 60,
      eye_r_y |-> (height - 80) \div 2,
      eye_l_x_next |-> (width - (80 + 60 + 80)) \div 2,
      eye_l_y_next |-> (height - 80) \div 2,
      eye_r_x_next |-> (width - (80 + 60 + 80)) \div 2 + 80 + 60,
      eye_r_y_next |-> (height - 80) \div 2,
      _mood |-> DEFAULT,
      tired |-> FALSE,
      angry |-> FALSE,
      happy |-> FALSE,
      _curious |-> FALSE,
      _cyclops |-> FALSE,
      sad |-> FALSE,
      eye_l_open |-> TRUE,
      eye_r_open |-> TRUE,
      autoblinker |-> FALSE,
      blink_interval |-> 1000,
      blink_interval_variation |-> 2000,
      _next_blink |-> t + 1000,
      idle |-> FALSE,
      idle_interval |-> 1500,
      idle_interval_variation |-> 1500,
      _next_idle |-> t + 1500,
      _confused |-> FALSE,
      _laugh |-> FALSE,
      confused_animation_timer |-> 0,
      laugh_animation_timer |-> 0,
      confused_duration |-> 500,
      laugh_duration |-> 500,
      _wink_left |-> FALSE,
      _wink_right |-> FALSE,
      wink_timer |-> 0,
      wink_duration |-> 300 ]

\* RoboEyes.set_framerate(fps)
set_framerate(self, fps) ==
    [self EXCEPT !.frame_interval = frame_interval_of(fps)]

\* RoboEyes.eyes_width(left_eye, right_eye); an argument is None or <<value>>
eyes_width(self, left_eye, right_eye) ==
    LET a == IF left_eye # None
             THEN [self EXCEPT !.eye_l_width_next = Val(left_eye),
                               !.eye_l_width_default = Val(left_eye)]
             ELSE self
    IN  IF right_eye # None
        THEN [a EXCEPT !.eye_r_width_next = Val(right_eye),
                       !.eye_r_width_default = Val(right_eye)]
        ELSE a

\* an eyes_height that sets the target and leaves the default
eyes_height_target_only(self, left_eye, right_eye) ==
    LET a == IF left_eye # None
             THEN [self EXCEPT !.eye_l_height_next = Val(left_eye)]
             ELSE self
    IN  IF right_eye # None
        THEN [a EXCEPT !.eye_r_height_next = Val(right_eye)]
        ELSE a

\* RoboEyes.eyes_height(left_eye, right_eye)
eyes_height(self, left_eye, right_eye) ==
    LET a == IF left_eye # None
             THEN [self EXCEPT !.eye_l_height_next = Val(left_eye),
                               !.eye_l_height_default = Val(left_eye)]
             ELSE self
    IN  IF right_eye # None
        THEN [a EXCEPT !.eye_r_height_next = Val(right_eye),
                       !.eye_r_height_default = Val(right_eye)]
        ELSE a

\* RoboEyes.eyes_radius(left_eye, right_eye)
eyes_radius(self, left_eye, right_eye) ==
    LET a == IF left_eye # None
             THEN [self EXCEPT !.eye_l_radius_next = Val(left_eye),
                               !.eye_l_radius_default = Val(left_eye)]
             ELSE self
    IN  IF right_eye # None
        THEN [a EXCEPT !.eye_r_radius_next = Val(right_eye),
                       !.eye_r_radius_default = Val(right_eye)]
        ELSE a

\* RoboEyes.eyes_spacing(space)
eyes_spacing(self, space) ==
    [self EXCEPT !.space_between_next = space, !.space_between_default = space]

\* a mood setter that leaves the sad flag as it was
set_mood_keeps_sad(self, value) ==
    [self EXCEPT !._mood = value,
                 !.tired = (value \in {TIRED, SCARY}),
                 !.angry = (value = ANGRY),
                 !.happy = (value = HAPPY),
                 !._curious = (value = CURIOUS)]

\* a mood setter that takes SCARY for an angry mood as well
set_mood_scary_angry(self, value) ==
    [self EXCEPT !._mood = value,
                 !.tired = (value \in {TIRED, SCARY}),
                 !.angry = (value \in {ANGRY, SCARY}),
                 !.happy = (value = HAPPY),
                 !._curious = (value = CURIOUS),
                 !.sad = (value = SAD)]

\* RoboEyes.mood setter and set_mood(value)
set_mood(self, value) ==
    [self EXCEPT !._mood = value,
                 !.tired = (value \in {TIRED, SCARY}),
                 !.angry = (value = ANGRY),
                 !.happy = (value = HAPPY),
                 !._curious = (value = CURIOUS),
                 !.sad = (value = SAD)]

\* RoboEyes.mood getter
mood(self) == self._mood

\* RoboEyes.cyclops setter and set_cyclops(value)
set_cyclops(self, value) == [self EXCEPT !._cyclops = value]

\* RoboEyes.curious setter and set_curious(value)
set_curious(self, value) == [self EXCEPT !._curious = value]

\* RoboEyes.set_auto_blinker(active, interval, variation) at clock reading t;
\* interval and variation are whole seconds or None
set_auto_blinker(self, active, interval, variation, t) ==
    LET a == [self EXCEPT !.autoblinker = (active # 0)]
        b == IF interval # None THEN [a EXCEPT !.blink_interval = Val(interval) * 1000] ELSE a
        c == IF variation # None
             THEN [b EXCEPT !.blink_interval_variation = Val(variation) * 1000]
             ELSE b
    IN  [c EXCEPT !._next_blink = t + c.blink_interval]

\* RoboEyes.set_idle_mode(active, interval, variation) at clock reading t
set_idle_mode(self, active, interval, variation, t) ==
    LET a == [self EXCEPT !.idle = (active # 0)]
        b == IF interval # None THEN [a EXCEPT !.idle_interval = Val(interval) * 1000] ELSE a
        c == IF variation # None
             THEN [b EXCEPT !.idle_interval_variation = Val(variation) * 1000]
             ELSE b
    IN  [c EXCEPT !._next_idle = t + c.idle_interval]

\* RoboEyes.position setter and set_position(value); any value that is not a
\* compass direction centres the eyes
set_position(self, direction) ==
    LET max_x == self.screen_width
                   - (self.eye_l_width_current + self.space_between_current
                      + (IF self._cyclops THEN 0 ELSE self.eye_r_width_current))
        max_y == self.screen_height - self.eye_l_height_current
        x == CASE direction \in {N, S} -> max_x \div 2
               [] direction \in {NE, E, SE} -> max_x
               [] direction \in {SW, W, NW} -> 0
               [] OTHER -> max_x \div 2
        y == CASE direction \in {N, NE, NW} -> 0
               [] direction \in {E, W} -> max_y \div 2
               [] direction \in {SE, S, SW} -> max_y
               [] OTHER -> max_y \div 2
    IN  [self EXCEPT !.eye_l_x_next = x, !.eye_l_y_next = y]

\* RoboEyes._schedule_open(left, right) at clock reading t:
\* sequences.add("blink"), seq.step(120, reopen), seq.start()
_schedule_open(self, left, right, t) ==
    LET added == Sequences_add(self, "blink")
        i == Len(added.sequences)
    IN  Sequence_start(Sequence_step(added, i, ReopenDelay, left, right), i, t)

\* RoboEyes.blink(left, right) at clock reading t
blink(self, left, right, t) ==
    IF left = None /\ right = None
    THEN _schedule_open(
             [self EXCEPT !.eye_l_height_next = ClosedHeight,
                          !.eye_r_height_next = IF ~self._cyclops THEN ClosedHeight ELSE 0,
                          !.eye_l_open = FALSE,
                          !.eye_r_open = ~self._cyclops],
             TRUE, TRUE, t)
    ELSE LET a == IF Truthy(left)
                  THEN [self EXCEPT !.eye_l_height_next = ClosedHeight,
                                    !.eye_l_open = FALSE]
                  ELSE self
             b == IF Truthy(right) /\ ~a._cyclops
                  THEN [a EXCEPT !.eye_r_height_next = ClosedHeight,
                                 !.eye_r_open = FALSE]
                  ELSE a
         IN  _schedule_open(b, Truthy(left), Truthy(right), t)

\* RoboEyes.wink: the ValueError of its first statement
wink_raises(left, right) == ~(Truthy(left) \/ Truthy(right))

\* a wink that records the request before it validates it
wink_stamps_first(self, left, right, t) ==
    LET a == [self EXCEPT !._wink_left = Truthy(left),
                          !._wink_right = Truthy(right),
                          !.wink_timer = t]
    IN  IF wink_raises(left, right) THEN a
        ELSE LET b == IF Truthy(left)
                      THEN [a EXCEPT !.eye_l_height_next = ClosedHeight,
                                     !.eye_l_open = FALSE]
                      ELSE a
             IN  IF Truthy(right) /\ ~b._cyclops
                 THEN [b EXCEPT !.eye_r_height_next = ClosedHeight,
                                !.eye_r_open = FALSE]
                 ELSE b

\* RoboEyes.wink(left, right) at clock reading t; the engine is returned as the
\* call leaves it, also when it raises
wink(self, left, right, t) ==
    IF wink_raises(left, right) THEN self
    ELSE LET a == [self EXCEPT !._wink_left = Truthy(left),
                               !._wink_right = Truthy(right),
                               !.wink_timer = t]
             b == IF Truthy(left)
                  THEN [a EXCEPT !.eye_l_height_next = ClosedHeight,
                                 !.eye_l_open = FALSE]
                  ELSE a
         IN  IF Truthy(right) /\ ~b._cyclops
             THEN [b EXCEPT !.eye_r_height_next = ClosedHeight,
                            !.eye_r_open = FALSE]
             ELSE b

\* RoboEyes.wink_left()
wink_left(self, t) ==
    IF self._cyclops THEN blink(self, Some(TRUE), None, t)
    ELSE wink(self, Some(TRUE), Some(FALSE), t)

\* RoboEyes.wink_right()
wink_right(self, t) ==
    IF self._cyclops THEN blink(self, None, Some(TRUE), t)
    ELSE wink(self, Some(FALSE), Some(TRUE), t)

\* a confuse() that lets a running window run on
confuse_keeps_window(self, t) ==
    IF self._confused THEN self
    ELSE [self EXCEPT !._confused = TRUE, !.confused_animation_timer = t]

\* RoboEyes.confuse()
confuse(self, t) ==
    [self EXCEPT !._confused = TRUE, !.confused_animation_timer = t]

\* RoboEyes.laugh()
laugh(self, t) ==
    [self EXCEPT !._laugh = TRUE, !.laugh_animation_timer = t]

-----------------------------------------------------------------------------
(* RoboEyes.update *)

\* random.randint(a, b): the draw is one of the two ends or the middle of [a, b]
Picks == {"lo", "mid", "hi"}
randint(a, b, pick) ==
    CASE pick = "lo" -> a
      [] pick = "mid" -> (a + b) \div 2
      [] OTHER -> b

\* random.randint(a, b) raises ValueError on an empty range
randint_raises(a, b) == a > b

\* the local function lerp of update
\* a lerp that halves the target alone
lerp_unhalved_sum(a, b) == a + b \div 2

lerp(a, b) == (a + b) \div 2

\* a frame limiter that lets every call through
frame_limited_never(self, t) == FALSE

\* update: the frame limiter; TRUE when the call returns after the sequences
frame_limited(self, t) == t - self.fps_timer < self.frame_interval

\* an auto blink that reschedules by the jitter alone
auto_blink_jitter_only(self, t, jb) ==
    IF self.autoblinker /\ t >= self._next_blink
    THEN [blink(self, None, None, t) EXCEPT
              !._next_blink = t + randint(0, self.blink_interval_variation, jb)]
    ELSE self

\* update, "Auto blink"; jb is the draw of the jitter
auto_blink_due(self, t) == self.autoblinker /\ t >= self._next_blink
auto_blink(self, t, jb) ==
    IF auto_blink_due(self, t)
    THEN [blink(self, None, None, t) EXCEPT
              !._next_blink = t + self.blink_interval
                                + randint(0, self.blink_interval_variation, jb)]
    ELSE self

\* a horizontal bound that leaves the spacing out of the eye span
idle_max_x_no_spacing(self) ==
    self.screen_width - (self.eye_l_width_current
                         + (IF self._cyclops THEN 0 ELSE self.eye_r_width_current))

\* update, "Idle reposition": the bounds of the random target
idle_max_x(self) ==
    self.screen_width - (self.eye_l_width_current + self.space_between_current
                         + (IF self._cyclops THEN 0 ELSE self.eye_r_width_current))
idle_max_y(self) == self.screen_height - self.eye_l_height_current

idle_due(self, t) == self.idle /\ t >= self._next_idle

\* update, "Idle reposition": the ValueError of randint on an empty range
idle_raises(self, t) ==
    idle_due(self, t) /\ (randint_raises(0, idle_max_x(self)) \/ randint_raises(0, idle_max_y(self)))

\* update, "Idle reposition"; ix, iy, ji are the three draws.  When the second
\* randint raises, the x target is already written
idle_reposition(self, t, ix, iy, ji) ==
    IF ~idle_due(self, t) THEN self
    ELSE IF randint_raises(0, idle_max_x(self)) THEN self
    ELSE IF randint_raises(0, idle_max_y(self))
         THEN [self EXCEPT !.eye_l_x_next = randint(0, idle_max_x(self), ix)]
    ELSE [self EXCEPT !.eye_l_x_next = randint(0, idle_max_x(self), ix),
                      !.eye_l_y_next = randint(0, idle_max_y(self), iy),
                      !._next_idle = t + self.idle_interval
                                       + randint(0, self.idle_interval_variation, ji)]

\* an interpolation that couples the right eye to the left eye's sizes as they
\* were before this tick
interpolate_couples_first(self) ==
    LET a == [self EXCEPT
                !.eye_r_x_next = self.eye_l_x_next + self.eye_l_width_current
                                   + self.space_between_current,
                !.eye_r_y_next = self.eye_l_y_next,
                !.eye_l_width_current = lerp(@, self.eye_l_width_next),
                !.eye_r_width_current = lerp(@, self.eye_r_width_next),
                !.eye_l_height_current = lerp(@, self.eye_l_height_next),
                !.eye_r_height_current = lerp(@, self.eye_r_height_next),
                !.eye_l_radius_current = lerp(@, self.eye_l_radius_next),
                !.eye_r_radius_current = lerp(@, self.eye_r_radius_next),
                !.space_between_current = lerp(@, self.space_between_next),
                !.eye_l_x = lerp(@, self.eye_l_x_next),
                !.eye_l_y = lerp(@, self.eye_l_y_next)]
    IN  [a EXCEPT !.eye_r_x = lerp(@, a.eye_r_x_next),
                  !.eye_r_y = lerp(@, a.eye_r_y_next)]

\* update, "Interpolate geometry": the sizes, then the positions
interpolate(self) ==
    LET a == [self EXCEPT
                !.eye_l_width_current = lerp(@, self.eye_l_width_next),
                !.eye_r_width_current = lerp(@, self.eye_r_width_next),
                !.eye_l_height_current = lerp(@, self.eye_l_height_next),
                !.eye_r_height_current = lerp(@, self.eye_r_height_next),
                !.eye_l_radius_current = lerp(@, self.eye_l_radius_next),
                !.eye_r_radius_current = lerp(@, self.eye_r_radius_next),
                !.space_between_current = lerp(@, self.space_between_next),
                !.eye_l_x = lerp(@, self.eye_l_x_next),
                !.eye_l_y = lerp(@, self.eye_l_y_next)]
        b == [a EXCEPT
                !.eye_r_x_next = a.eye_l_x_next + a.eye_l_width_current + a.space_between_current,
                !.eye_r_y_next = a.eye_l_y_next]
    IN  [b EXCEPT !.eye_r_x = lerp(@, b.eye_r_x_next),
                  !.eye_r_y = lerp(@, b.eye_r_y_next)]

\* update, "Handle wink restore"
wink_restore(self, t) ==
    IF (self._wink_left \/ self._wink_right) /\ (t - self.wink_timer) > self.wink_duration
    THEN LET a == IF self._wink_left
                  THEN [self EXCEPT !.eye_l_height_next = self.eye_l_height_default,
                                    !.eye_l_open = TRUE]
                  ELSE self
             b == IF a._wink_right /\ ~a._cyclops
                  THEN [a EXCEPT !.eye_r_height_next = a.eye_r_height_default,
                                 !.eye_r_open = TRUE]
                  ELSE a
         IN  [b EXCEPT !._wink_left = FALSE, !._wink_right = FALSE]
    ELSE self

\* update: the signed displacement of the 80 ms time bucket
jitter_of(t, jitter) == IF (t \div 80) % 2 # 0 THEN -jitter ELSE jitter

\* a confuse jitter that shakes the left eye only
confuse_jitter_left_only(self, t) ==
    IF ~self._confused THEN self
    ELSE IF t - self.confused_animation_timer < self.confused_duration
         THEN [self EXCEPT !.eye_l_x = @ + jitter_of(t, 20)]
    ELSE [self EXCEPT !._confused = FALSE]

\* update, "Confuse jitter (horizontal)"
confuse_jitter(self, t) ==
    IF ~self._confused THEN self
    ELSE IF t - self.confused_animation_timer < self.confused_duration
         THEN [self EXCEPT !.eye_l_x = @ + jitter_of(t, 20),
                           !.eye_r_x = @ + jitter_of(t, 20)]
    ELSE [self EXCEPT !._confused = FALSE]

\* update, "Laugh jitter (vertical)"
laugh_jitter(self, t) ==
    IF ~self._laugh THEN self
    ELSE IF t - self.laugh_animation_timer < self.laugh_duration
         THEN [self EXCEPT !.eye_l_y = @ + jitter_of(t, 15),
                           !.eye_r_y = @ + jitter_of(t, 15)]
    ELSE [self EXCEPT !._laugh = FALSE]

\* update, on a processed tick: s1 is the engine after the sequences have run;
\* the frame timer is set and the auto blink may fire
update_head(s1, t, jb) ==
    auto_blink([s1 EXCEPT !.fps_timer = t], t, jb)

\* update: whether the call raises (only the idle reposition can)
update_raises(self, t, jb) ==
    LET s1 == Sequences_update(self, t).self
    IN  ~frame_limited(s1, t) /\ idle_raises(update_head(s1, t, jb), t)

\* an update that interpolates before the idle reposition picks its target
update_tail_interpolates_first(s3, t, rnd) ==
    LET s4 == idle_reposition(interpolate(s3), t, rnd.ix, rnd.iy, rnd.ji)
    IN  IF idle_raises(s3, t) THEN s4
        ELSE laugh_jitter(confuse_jitter(wink_restore(s4, t), t), t)

\* update, after the frame limiter: s3 is the engine after the auto blink
update_tail(s3, t, rnd) ==
    LET s4 == idle_reposition(s3, t, rnd.ix, rnd.iy, rnd.ji)
    IN  IF idle_raises(s3, t) THEN s4
        ELSE laugh_jitter(confuse_jitter(wink_restore(interpolate(s4), t), t), t)

\* RoboEyes.update() at clock reading t, with the draws rnd = [jb, ix, iy, ji];
\* the drawing that follows changes no attribute
update(self, t, rnd) ==
    LET s1 == Sequences_update(self, t).self
    IN  IF frame_limited(s1, t) THEN s1
        ELSE update_tail(update_head(s1, t, rnd.jb), t, rnd)

-----------------------------------------------------------------------------
(* The sensor application, src/animation2.py *)

\* distance thresholds (cm), the zone cooldown (ms) and the period of the
\* wink phase (ms)
NEAR_THRESHOLD == 15
MID_THRESHOLD == 35
FAR_THRESHOLD == 60
ZoneCooldown == 400
WinkPhase == 1200
\* frame_rate of the engine the sensor application builds
SensorFrameRate == 60

\* the module globals before the main loop
Globals == [current_distance_cm |-> None, last_zone |-> None, zone_cooldown_until |-> 0]

\* the engine as the application sets it up before its main loop
SensorEngine ==
    LET a == RoboEyes(WIDTH, HEIGHT, SensorFrameRate, 0)
        b == set_auto_blinker(a, ON, Some(3), Some(2), 0)
        c == set_idle_mode(b, ON, Some(2), Some(2), 0)
        d == eyes_width(c, Some(90), Some(90))
        e == eyes_height(d, Some(80), Some(80))
        f == eyes_radius(e, Some(15), Some(15))
    IN  set_mood(f, DEFAULT)

\* a zone test that excludes the thresholds themselves
zone_of_strict(dist) ==
    IF dist < NEAR_THRESHOLD THEN "near"
    ELSE IF dist < MID_THRESHOLD THEN "mid"
    ELSE IF dist < FAR_THRESHOLD THEN "far"
    ELSE "away"

\* main loop, "Determine zone"
zone_of(dist) ==
    IF dist <= NEAR_THRESHOLD THEN "near"
    ELSE IF dist <= MID_THRESHOLD THEN "mid"
    ELSE IF dist <= FAR_THRESHOLD THEN "far"
    ELSE "away"

\* main loop, "cooldown to prevent rapid mood flicker": the zone acted on and
\* the globals after it, for the zone of the reading at clock reading t
zone_cooldown(g, zone, t) ==
    IF t < g.zone_cooldown_until
    THEN [zone |-> IF g.last_zone # None THEN Val(g.last_zone) ELSE zone, g |-> g]
    ELSE IF Some(zone) # g.last_zone
         THEN [zone |-> zone,
               g |-> [g EXCEPT !.zone_cooldown_until = t + ZoneCooldown,
                               !.last_zone = Some(zone)]]
    ELSE [zone |-> zone, g |-> g]

\* main loop, "Map zones to moods": the mood of a zone
mood_of_zone(zone) ==
    CASE zone = "near" -> CURIOUS
      [] zone = "mid" -> HAPPY
      [] zone = "far" -> DEFAULT
      [] OTHER -> TIRED

\* main loop, "Map zones to moods + micro animations"
zone_animation(self, zone, t) ==
    LET a == set_mood(self, mood_of_zone(zone))
    IN  IF zone = "near" /\ (t \div WinkPhase) % 2 = 0
        THEN confuse(wink_left(a, t), t)
        ELSE a

\* main loop, "Serial-driven mood mapping": the engine and the globals after it
mood_mapping(self, g, t) ==
    IF g.current_distance_cm = None THEN [self |-> self, g |-> g]
    ELSE LET c == zone_cooldown(g, zone_of(Val(g.current_distance_cm)), t)
         IN  [self |-> zone_animation(self, c.zone, t), g |-> c.g]

-----------------------------------------------------------------------------
(* Bounds of the model *)

\* the most sequences the engine ever holds (every blink adds one, none is removed)
MaxSeqs == 2
\* the most sequences built through the sequence interface
MaxUserSeqs == 1
\* the most steps a sequence built through the sequence interface gets
MaxSteps == 2
\* clock steps taken in the sequence runs, of SeqClock ms each
SeqTicks == 3
\* clock steps taken in the blink runs, of BlinkClock ms each
BlinkTicks == 3
\* clock steps taken in the wink runs, of WinkClock ms each
WinkTicks == 4
\* clock steps taken in the mood runs, of BlinkClock ms each
MoodTicks == 2
\* clock steps taken in the sizing runs, of FrameClock ms each
SizeTicks == 3
\* clock steps taken in the eye height runs, of FrameClock ms each
HeightTicks == 7
\* turns of the sensor application's main loop, of SensorClock ms each
SensorTicks == 6
\* turns of the main loop in the idle runs, of IdleClock ms each
IdleTicks == 2
\* turns of the main loop in the position runs, of FrameClock ms each
PositionTicks == 2
\* turns of the main loop in the auto runs, of AutoClock ms each
AutoTicks == 3
\* turns of the main loop in the frame limiter runs, of LimiterClock ms each
LimiterTicks == 2
\* turns of the main loop in the interpolation runs, of LerpClock ms each
LerpTicks == 2
\* turns of the main loop in the jitter runs, of WinkClock ms each
JitterTicks == 6
\* turns of the main loop in the default size runs, of WinkClock ms each
DefaultTicks == 4

SeqClock == {60}
BlinkClock == {60}
WinkClock == {100}
FrameClock == {40}
SensorClock == {100}
IdleClock == {1000}
AutoClock == {400}
LimiterClock == {500}
LerpClock == {60}
\* the frame rates given to set_framerate
FrameRates == {1, 30}
\* the size given to eyes_width in the idle runs: two such eyes do not fit
IdleSizes == {300}
\* the size given to eyes_width, eyes_height and eyes_spacing in the position
\* runs: two such eyes fit the display
PositionSizes == {140}
\* the sizes given to the sizing calls in the interpolation runs: a width and
\* a radius below the default, a height and a spacing above it, at odd
\* distances from it
LerpShrunk == {15}
LerpGrown == {121}
\* the arguments given to set_position: the centre and the eight directions
Directions == {0, N, NE, E, SE, S, SW, W, NW}
\* the distances the serial reader delivers: one in each zone, at its upper end
Distances == {15, 35, 60, 61}
\* the arguments given to eyes_width and eyes_height
SizeArgs == {None, Some(60), Some(120)}
\* the offsets given to seq.step in the sequence runs
StepOffsets == {60, 120}
\* the callbacks given to seq.step: the closure reopen(left, right) of blink()
StepCallbacks == {<<TRUE, TRUE>>}

-----------------------------------------------------------------------------
(* The operations: one action per public call, and the clock *)

\* the state after construction, animation.py line 10 with the default frame rate
Init ==
    /\ now = 0
    /\ robo = RoboEyes(WIDTH, HEIGHT, FrameRate, 0)
    /\ op = "init"
    /\ raised = ""
    /\ fired = <<>>
    /\ app = Globals
    /\ held = None

\* the clock advances by d ms, at most n times
Tick(d, n) ==
    /\ now + d <= n * d
    /\ now' = now + d
    /\ op' = "tick"
    /\ raised' = ""
    /\ fired' = <<>>
    /\ UNCHANGED <<robo, app, held>>

\* a call of method name that returns normally and leaves the engine as after
Returns(name, after) ==
    /\ robo' = after
    /\ op' = name
    /\ raised' = ""
    /\ fired' = <<>>
    /\ UNCHANGED <<now, app, held>>

\* the draws one update() makes: none is enumerated where it is not read
Draws(self, t) ==
    LET s1 == Sequences_update(self, t).self
        processed == ~frame_limited(s1, t)
        jbs == IF processed /\ auto_blink_due(s1, t) THEN Picks ELSE {"lo"}
        ids == IF processed /\ \E jb \in jbs : idle_due(update_head(s1, t, jb), t)
               THEN Picks ELSE {"lo"}
    IN  [jb : jbs, ix : ids, iy : ids, ji : ids]

\* robo.update()
Update ==
    \E rnd \in Draws(robo, now) :
        LET after == update(robo, now, rnd)
        IN  /\ Len(after.sequences) <= MaxSeqs
            /\ robo' = after
            /\ op' = "update"
            /\ raised' = IF update_raises(robo, now, rnd.jb) THEN "ValueError" ELSE ""
            /\ fired' = Sequences_update(robo, now).fired
            /\ UNCHANGED <<now, app, held>>

\* one turn of the application's main loop: clock.tick(60) lets d ms pass, then
\* robo.update() runs; at most n turns
Frame(d, n) ==
    /\ now + d <= n * d
    /\ now' = now + d
    /\ \E rnd \in Draws(robo, now + d) :
          LET after == update(robo, now + d, rnd)
          IN  /\ Len(after.sequences) <= MaxSeqs
              /\ robo' = after
              /\ op' = "update"
              /\ raised' = IF update_raises(robo, now + d, rnd.jb) THEN "ValueError" ELSE ""
              /\ fired' = Sequences_update(robo, now + d).fired
    /\ UNCHANGED <<app, held>>

\* robo.blink(left, right)
Blink(left, right) ==
    /\ Len(robo.sequences) < MaxSeqs
    /\ Returns("blink", blink(robo, left, right, now))

\* robo.wink(left, right)
Wink(left, right) ==
    /\ robo' = wink(robo, left, right, now)
    /\ op' = "wink"
    /\ raised' = IF wink_raises(left, right) THEN "ValueError" ELSE ""
    /\ fired' = <<>>
    /\ UNCHANGED <<now, app, held>>

\* robo.set_cyclops(value)
SetCyclops(value) == Returns("set_cyclops", set_cyclops(robo, value))

\* robo.eyes_height(left_eye, right_eye)
EyesHeight(left_eye, right_eye) == Returns("eyes_height", eyes_height(robo, left_eye, right_eye))

\* robo.eyes_width(left_eye, right_eye)
EyesWidth(left_eye, right_eye) == Returns("eyes_width", eyes_width(robo, left_eye, right_eye))

\* robo.set_mood(value)
SetMood(value) == Returns("set_mood", set_mood(robo, value))

\* robo.set_curious(value)
SetCurious(value) == Returns("set_curious", set_curious(robo, value))

\* seq = robo.sequences.add(name)
SeqAdd ==
    /\ Len(robo.sequences) < MaxUserSeqs
    /\ Returns("add", Sequences_add(robo, "user"))

\* robo.sequences[i].step(ms_timing, callback), before the sequence starts
SeqStep(i, ms_timing, cb) ==
    /\ i \in 1..Len(robo.sequences)
    /\ robo.sequences[i]._start = None
    /\ Len(robo.sequences[i].steps) < MaxSteps
    /\ Returns("step", Sequence_step(robo, i, ms_timing, cb[1], cb[2]))

\* robo.sequences[i].start()
SeqStart(i) ==
    /\ i \in 1..Len(robo.sequences)
    /\ Returns("start", Sequence_start(robo, i, now))

\* robo.sequences[i].reset()
SeqReset(i) ==
    /\ i \in 1..Len(robo.sequences)
    /\ Returns("reset", Sequence_reset(robo, i))

\* robo.wink_left()
WinkLeft ==
    /\ Len(robo.sequences) < MaxSeqs
    /\ Returns("wink_left", wink_left(robo, now))

\* robo.wink_right()
WinkRight ==
    /\ Len(robo.sequences) < MaxSeqs
    /\ Returns("wink_right", wink_right(robo, now))

\* robo.set_idle_mode(active, interval, variation)
SetIdleMode(active, interval, variation) ==
    Returns("set_idle_mode", set_idle_mode(robo, active, interval, variation, now))

\* robo.set_auto_blinker(active, interval, variation)
SetAutoBlinker(active, interval, variation) ==
    Returns("set_auto_blinker", set_auto_blinker(robo, active, interval, variation, now))

\* robo.eyes_spacing(space)
EyesSpacing(space) == Returns("eyes_spacing", eyes_spacing(robo, space))

\* robo.eyes_radius(left_eye, right_eye)
EyesRadius(left_eye, right_eye) == Returns("eyes_radius", eyes_radius(robo, left_eye, right_eye))

\* robo.set_position(direction)
SetPosition(direction) == Returns("set_position", set_position(robo, direction))

\* robo.set_framerate(fps)
SetFramerate(fps) == Returns("set_framerate", set_framerate(robo, fps))

\* robo.confuse()
Confuse == Returns("confuse", confuse(robo, now))

\* robo.laugh()
Laugh == Returns("laugh", laugh(robo, now))

\* the serial thread stores a distance it has read
SerialReading(v) ==
    /\ app' = [app EXCEPT !.current_distance_cm = Some(v)]
    /\ held' = IF app.current_distance_cm # None /\ zone_of(Val(app.current_distance_cm)) = zone_of(v)
               THEN held
               ELSE Some(now)
    /\ op' = "reading"
    /\ raised' = ""
    /\ fired' = <<>>
    /\ UNCHANGED <<robo, now>>

\* one turn of the sensor application's main loop with no key pressed: the
\* mood mapping, robo.update(), then clock.tick(60) lets d ms pass; at most n turns
SensorLoop(d, n) ==
    /\ now + d <= n * d
    /\ LET m == mood_mapping(robo, app, now)
       IN  /\ app' = m.g
           /\ \E rnd \in Draws(m.self, now) :
                 LET after == update(m.self, now, rnd)
                 IN  /\ Len(after.sequences) <= MaxSeqs
                     /\ robo' = after
                     /\ raised' = IF update_raises(m.self, now, rnd.jb) THEN "ValueError" ELSE ""
                     /\ fired' = Sequences_update(m.self, now).fired
    /\ op' = "loop"
    /\ now' = now + d
    /\ UNCHANGED held

-----------------------------------------------------------------------------
(* Sequence runs: sequences built and run through the sequence interface *)

NextSeq ==
    \/ \E d \in SeqClock : Tick(d, SeqTicks)
    \/ Update
    \/ SeqAdd
    \/ \E i \in 1..MaxUserSeqs, ms \in StepOffsets, cb \in StepCallbacks : SeqStep(i, ms, cb)
    \/ \E i \in 1..MaxUserSeqs : SeqStart(i)
    \/ \E i \in 1..MaxUserSeqs : SeqReset(i)

SpecSeq == Init /\ [][NextSeq]_vars

-----------------------------------------------------------------------------
(* Blink runs: blinks of either eye and updates, with two eyes *)

NextBlink ==
    \/ \E d \in BlinkClock : Tick(d, BlinkTicks)
    \/ Update
    \/ \E left \in OptBool, right \in OptBool : Blink(left, right)

SpecBlink == Init /\ [][NextBlink]_vars

Spec == SpecBlink

-----------------------------------------------------------------------------
(* Cyclops runs: blinks, winks and updates after set_cyclops(True) *)

InitCyclops ==
    /\ now = 0
    /\ robo = set_cyclops(RoboEyes(WIDTH, HEIGHT, FrameRate, 0), TRUE)
    /\ op = "set_cyclops"
    /\ raised = ""
    /\ fired = <<>>
    /\ app = Globals
    /\ held = None

NextCyclops ==
    \/ \E d \in BlinkClock : Tick(d, BlinkTicks)
    \/ Update
    \/ \E left \in OptBool, right \in OptBool : Blink(left, right)
    \/ \E left \in OptBool, right \in OptBool : Wink(left, right)

SpecCyclops == InitCyclops /\ [][NextCyclops]_vars

-----------------------------------------------------------------------------
(* Wink runs: winks of either eye and updates, with two eyes *)

NextWink ==
    \/ \E d \in WinkClock : Tick(d, WinkTicks)
    \/ Update
    \/ \E left \in OptBool, right \in OptBool : Wink(left, right)

SpecWink == Init /\ [][NextWink]_vars

-----------------------------------------------------------------------------
(* Blink and wink runs: blinks of both eyes and winks of the left eye, with
   two eyes *)

NextBlinkWink ==
    \/ \E d \in WinkClock : Tick(d, WinkTicks)
    \/ Update
    \/ Blink(None, None)
    \/ Wink(Some(TRUE), Some(FALSE))

SpecBlinkWink == Init /\ [][NextBlinkWink]_vars

-----------------------------------------------------------------------------
(* Jitter runs: confuse() and laugh() between the turns of the main loop *)

NextJitter ==
    \/ \E d \in WinkClock : Frame(d, JitterTicks)
    \/ Confuse
    \/ Laugh

SpecJitter == Init /\ [][NextJitter]_vars

\* the main loop keeps turning while the application runs: a turn is the only
\* step that advances the clock, and in these runs nothing but the bound on
\* the turns disables it, so the fairness is stated on the clock part of Frame
SpecJitterLoop ==
    SpecJitter /\ WF_now(\E d \in WinkClock : now + d <= JitterTicks * d /\ now' = now + d)

-----------------------------------------------------------------------------
(* Default size runs: eyes_height() given a value for the left eye only, with
   blinks and winks of both eyes between the turns of the main loop *)

NextDefault ==
    \/ \E d \in WinkClock : Frame(d, DefaultTicks)
    \/ EyesHeight(Some(60), None)
    \/ Blink(None, None)
    \/ Wink(Some(TRUE), Some(TRUE))

SpecDefault == Init /\ [][NextDefault]_vars

-----------------------------------------------------------------------------
(* Mood runs: mood and curious changes between updates *)

NextMood ==
    \/ \E d \in BlinkClock : Tick(d, MoodTicks)
    \/ Update
    \/ \E value \in Moods : SetMood(value)
    \/ \E value \in BOOLEAN : SetCurious(value)

SpecMood == Init /\ [][NextMood]_vars

-----------------------------------------------------------------------------
(* Sizing runs: the eyes are resized between updates *)

NextSize ==
    \/ \E d \in FrameClock : Tick(d, SizeTicks)
    \/ Update
    \/ \E left \in SizeArgs, right \in SizeArgs : EyesWidth(left, right)

SpecSize == Init /\ [][NextSize]_vars

-----------------------------------------------------------------------------
(* Eye height runs: blink(), eyes_height() and set_cyclops() between the turns
   of the main loop *)

NextHeight ==
    \/ \E d \in FrameClock : Frame(d, HeightTicks)
    \/ \E value \in BOOLEAN : SetCyclops(value)
    \/ Blink(None, None)
    \/ EyesHeight(Some(60), Some(60))

SpecHeight == Init /\ [][NextHeight]_vars

-----------------------------------------------------------------------------
(* Interpolation runs: the four sizing calls and blink() between the turns of
   the main loop *)

NextLerp ==
    \/ \E d \in LerpClock : Frame(d, LerpTicks)
    \/ \E v \in LerpShrunk : EyesWidth(Some(v), Some(v))
    \/ \E v \in LerpGrown : EyesHeight(Some(v), Some(v))
    \/ \E v \in LerpShrunk : EyesRadius(Some(v), Some(v))
    \/ \E v \in LerpGrown : EyesSpacing(v)
    \/ Blink(None, None)

SpecLerp == Init /\ [][NextLerp]_vars

-----------------------------------------------------------------------------
(* Cyclops wink runs: wink_left() and wink_right() after set_cyclops(True) *)

NextCyclopsWink ==
    \/ \E d \in BlinkClock : Tick(d, BlinkTicks)
    \/ Update
    \/ WinkLeft
    \/ WinkRight

SpecCyclopsWink == InitCyclops /\ [][NextCyclopsWink]_vars

-----------------------------------------------------------------------------
(* Sensor runs: the sensor application's main loop and its serial reader *)

InitSensor ==
    /\ now = 0
    /\ robo = SensorEngine
    /\ op = "init"
    /\ raised = ""
    /\ fired = <<>>
    /\ app = Globals
    /\ held = None

NextSensor ==
    \/ \E v \in Distances : SerialReading(v)
    \/ \E d \in SensorClock : SensorLoop(d, SensorTicks)

SpecSensor == InitSensor /\ [][NextSensor]_vars

-----------------------------------------------------------------------------
(* Idle runs: the idle mode is switched and the eyes are resized and moved
   between the turns of the main loop *)

NextIdle ==
    \/ \E d \in IdleClock : Frame(d, IdleTicks)
    \/ SetIdleMode(ON, Some(1), Some(1))
    \/ \E w \in IdleSizes : EyesWidth(Some(w), Some(w))
    \/ \E value \in BOOLEAN : SetCyclops(value)
    \/ SetPosition(E)

SpecIdle == Init /\ [][NextIdle]_vars

-----------------------------------------------------------------------------
(* Position runs: the eyes are resized and moved between the turns of the
   main loop *)

NextPosition ==
    \/ \E d \in FrameClock : Frame(d, PositionTicks)
    \/ \E direction \in Directions : SetPosition(direction)
    \/ \E w \in PositionSizes : EyesWidth(Some(w), Some(w))
    \/ \E h \in PositionSizes : EyesHeight(Some(h), Some(h))
    \/ \E space \in PositionSizes : EyesSpacing(space)

SpecPosition == Init /\ [][NextPosition]_vars

-----------------------------------------------------------------------------
(* Auto runs: the auto blinker and the idle mode are switched on and the eyes
   are shaken between the turns of the main loop *)

NextAuto ==
    \/ \E d \in AutoClock : Frame(d, AutoTicks)
    \/ \E active \in {OFF, ON} : SetAutoBlinker(active, Some(1), Some(1))
    \/ SetIdleMode(ON, Some(1), Some(1))
    \/ Confuse

SpecAuto == Init /\ [][NextAuto]_vars

-----------------------------------------------------------------------------
(* Frame limiter runs: with the auto blinker and the idle mode on, the frame
   rate is changed and the animations are triggered between the turns of the
   main loop *)

InitLimiter ==
    /\ now = 0
    /\ robo = set_idle_mode(
                  set_auto_blinker(RoboEyes(WIDTH, HEIGHT, FrameRate, 0), ON, Some(1), Some(1), 0),
                  ON, Some(1), Some(1), 0)
    /\ op = "set_idle_mode"
    /\ raised = ""
    /\ fired = <<>>
    /\ app = Globals
    /\ held = None

NextLimiter ==
    \/ \E d \in LimiterClock : Frame(d, LimiterTicks)
    \/ \E fps \in FrameRates : SetFramerate(fps)
    \/ Blink(None, None)
    \/ Wink(Some(TRUE), Some(TRUE))
    \/ Confuse

SpecLimiter == InitLimiter /\ [][NextLimiter]_vars

-----------------------------------------------------------------------------
(* Properties *)

\* the steps of the engine's sequences, as <<sequence, step>>
StepIds(self) ==
    UNION {{<<i, j>> : j \in 1..Len(self.sequences[i].steps)} : i \in 1..Len(self.sequences)}

\* how often callback id was invoked by the latest call
Invocations(id) == Cardinality({k \in 1..Len(fired) : fired[k] = id})

\* C1: on every update(), a step of a started sequence that has not run yet
\* and whose offset has elapsed (now - start >= T) has its callback invoked
\* exactly once and is marked done; every other step - one that is not yet
\* due, one that is already done, one of a sequence that is not started - is
\* not invoked and keeps its done flag.
C1_StepFiresOnce ==
    [][op' = "update" =>
        \A id \in StepIds(robo) :
            LET seq == robo.sequences[id[1]]
                s == seq.steps[id[2]]
                due == /\ seq._start # None
                       /\ ~s.done
                       /\ now - Val(seq._start) >= s.ms_timing
            IN  /\ Invocations(id)' = IF due THEN 1 ELSE 0
                /\ robo'.sequences[id[1]].steps[id[2]].done = (s.done \/ due)]_vars

\* C1 witness: an update() has just visited a started sequence holding a step
\* that fired on an earlier update and a step that is still pending, and
\* invoked neither.
C1_Witness ==
    /\ op = "update"
    /\ fired = <<>>
    /\ \E i \in 1..Len(robo.sequences) :
          /\ robo.sequences[i]._start # None
          /\ \E j \in 1..Len(robo.sequences[i].steps) : robo.sequences[i].steps[j].done
          /\ \E j \in 1..Len(robo.sequences[i].steps) : ~robo.sequences[i].steps[j].done

\* a blink of both eyes is waiting to reopen: sequence i is started and its
\* step reopen(True, True) has not run
BothEyesReopenPending(self, i) ==
    /\ self.sequences[i]._start # None
    /\ Len(self.sequences[i].steps) = 1
    /\ ~self.sequences[i].steps[1].done
    /\ self.sequences[i].steps[1].callback = [left |-> TRUE, right |-> TRUE]

\* C2: with two eyes, blink() with no arguments sets eye_l_height_next and
\* eye_r_height_next to 1 at once, and the first update() that comes 120 ms or
\* more after the blink sets each eye's height_next to that eye's
\* height_default.
C2_BlinkRoundTrip ==
    [][/\ (~robo._cyclops /\ Blink(None, None)) =>
              /\ robo'.eye_l_height_next = 1
              /\ robo'.eye_r_height_next = 1
       /\ (/\ op' = "update"
           /\ ~robo._cyclops
           /\ \E i \in 1..Len(robo.sequences) :
                 /\ BothEyesReopenPending(robo, i)
                 /\ now - Val(robo.sequences[i]._start) >= 120) =>
              /\ robo'.eye_l_height_next = robo'.eye_l_height_default
              /\ robo'.eye_r_height_next = robo'.eye_r_height_default]_vars

\* C2 witness: an update() has just run the reopen step of a blink whose
\* closing the eyes had begun to follow: both targets are back at 80 while
\* both current heights are still below it.
C2_Witness ==
    /\ op = "update"
    /\ fired # <<>>
    /\ ~robo._cyclops
    /\ robo.eye_l_height_next = 80 /\ robo.eye_r_height_next = 80
    /\ robo.eye_l_height_current < 80 /\ robo.eye_r_height_current < 80

\* C3: with two eyes and winks as the only animation, after a processed tick
\* that comes more than 300 ms after the latest wink call, both eyes have
\* height_next equal to their height_default and are marked open.
C3_WinkedEyesReopen ==
    (/\ op = "update"
     /\ robo.fps_timer = now
     /\ now - robo.wink_timer > 300) =>
        /\ robo.eye_l_height_next = robo.eye_l_height_default
        /\ robo.eye_r_height_next = robo.eye_r_height_default
        /\ robo.eye_l_open
        /\ robo.eye_r_open

\* the latest blink that closed the left (right) eye, 0 when there is none
LatestBlinkOf(self, side) ==
    LET on == {i \in 1..Len(self.sequences) :
                  /\ Len(self.sequences[i].steps) = 1
                  /\ IF side = "left" THEN self.sequences[i].steps[1].callback.left
                                      ELSE self.sequences[i].steps[1].callback.right}
    IN  IF on = {} THEN 0 ELSE CHOOSE i \in on : \A k \in on : k <= i

\* C4: with two eyes and blinks as the only animation, an eye stays closed
\* (height_next = 1) until 120 ms after the most recent blink of that eye.
C4_LatestBlinkWins ==
    \A side \in {"left", "right"} :
        LET i == LatestBlinkOf(robo, side)
        IN  (i # 0 /\ now - Val(robo.sequences[i]._start) < 120) =>
                (IF side = "left" THEN robo.eye_l_height_next
                                  ELSE robo.eye_r_height_next) = 1

\* C7: wink() with neither left nor right true raises ValueError and leaves
\* the engine as it was, in whatever state it is called.
C7_WinkValidation ==
    [][\A left \in OptBool, right \in OptBool :
          (~Truthy(left) /\ ~Truthy(right) /\ Wink(left, right)) =>
              /\ raised' = "ValueError"
              /\ robo' = robo]_vars

\* C7 witness: the invalid wink was made while a wink of the left eye was
\* running and raised.
C7_Witness ==
    /\ op = "wink"
    /\ raised = "ValueError"
    /\ robo._wink_left
    /\ robo.eye_l_height_next = 1

\* the flags set_mood(v) is documented to leave
MoodFlags(v) ==
    [tired |-> v \in {TIRED, SCARY}, angry |-> v = ANGRY, happy |-> v = HAPPY,
     curious |-> v = CURIOUS, sad |-> v = SAD]

\* the flags of the engine
Flags(self) ==
    [tired |-> self.tired, angry |-> self.angry, happy |-> self.happy,
     curious |-> self._curious, sad |-> self.sad]

\* C8: for each of the eight moods v and whatever the flags were before,
\* set_mood(v) leaves tired = (v in {TIRED, SCARY}), angry = (v = ANGRY),
\* happy = (v = HAPPY), curious = (v = CURIOUS), sad = (v = SAD), and the mood
\* read back is v.
C8_MoodFlags ==
    [][\A v \in Moods :
          SetMood(v) => (Flags(robo') = MoodFlags(v) /\ mood(robo') = v)]_vars

\* C8 witness: set_mood(SCARY) was called on an engine whose mood was SAD.
C8_Witness ==
    /\ op = "set_mood"
    /\ robo._mood = SCARY
    /\ robo.tired
    /\ ~robo.sad

\* the number of flags among names that are true
FlagsSet(self, names) == Cardinality({n \in names : Flags(self)[n]})

\* C9 as stated: at most one of tired, angry, happy, curious, sad is true.
C9_AtMostOneFlag ==
    FlagsSet(robo, {"tired", "angry", "happy", "curious", "sad"}) <= 1

\* C9 amended: at most one of tired, angry, happy, sad is true in every state,
\* and at most one of the five flags right after set_mood; set_curious(True)
\* sets curious next to whichever flag the mood has set.
C9_AtMostOneMoodFlag ==
    /\ FlagsSet(robo, {"tired", "angry", "happy", "sad"}) <= 1
    /\ op = "set_mood" => FlagsSet(robo, {"tired", "angry", "happy", "curious", "sad"}) <= 1

\* C9 witness: set_curious(True) was called in mood HAPPY: two flags are true.
C9_Witness ==
    /\ op = "set_curious"
    /\ robo.happy
    /\ robo._curious

\* C10: with cyclops enabled, no blink or wink call and no update() that runs
\* a reopen step changes eye_r_height_next or eye_r_open.
C10_CyclopsRightEyeUntouched ==
    [][(robo._cyclops /\ op' \in {"blink", "wink", "update"}) =>
          /\ robo'.eye_r_height_next = robo.eye_r_height_next
          /\ robo'.eye_r_open = robo.eye_r_open]_vars

\* what n processed ticks make of a current value a whose next value b is fixed
RECURSIVE lerp_times(_, _, _)
lerp_times(a, b, n) == IF n = 0 THEN a ELSE lerp_times(lerp(a, b), b, n - 1)

\* ceil(log2(d)) for d >= 1, and 0 for d = 0
RECURSIVE CeilLog2(_)
CeilLog2(d) == IF d <= 1 THEN 0 ELSE 1 + CeilLog2((d + 1) \div 2)

Abs(x) == IF x < 0 THEN -x ELSE x

\* the interpolated sizes of the engine, each as <<current, next>>
Interpolated(self) ==
    { <<self.eye_l_width_current, self.eye_l_width_next>>,
      <<self.eye_r_width_current, self.eye_r_width_next>>,
      <<self.eye_l_height_current, self.eye_l_height_next>>,
      <<self.eye_r_height_current, self.eye_r_height_next>>,
      <<self.eye_l_radius_current, self.eye_l_radius_next>>,
      <<self.eye_r_radius_current, self.eye_r_radius_next>>,
      <<self.space_between_current, self.space_between_next>> }

\* C5: from every state, ceil(log2(|next - current|)) processed ticks with
\* next fixed make each interpolated current value equal to its next value,
\* and one more tick leaves it there.
C5_ConvergesInLogTicks ==
    \A p \in Interpolated(robo) :
        LET reached == lerp_times(p[1], p[2], CeilLog2(Abs(p[2] - p[1])))
        IN  reached = p[2] /\ lerp(reached, p[2]) = p[2]

\* C6: after any blink, wink, eyes_height, set_cyclops and update calls both
\* current eye heights are at least 1.
C6_HeightAtLeastOne ==
    robo.eye_l_height_current >= 1 /\ robo.eye_r_height_current >= 1

\* the wink state of the engine
WinkState(self) == <<self._wink_left, self._wink_right, self.wink_timer>>

\* a reopen step is due at clock reading t: a started sequence holds a step
\* that has not run and whose offset has elapsed
ReopenDue(self, t) ==
    \E id \in StepIds(self) :
        /\ self.sequences[id[1]]._start # None
        /\ ~self.sequences[id[1]].steps[id[2]].done
        /\ t - Val(self.sequences[id[1]]._start) >= self.sequences[id[1]].steps[id[2]].ms_timing

\* C11: with cyclops enabled, wink_left() and wink_right() each set
\* eye_l_height_next to 1 and mark the eye closed without touching the wink
\* state, and the update() that runs the 120 ms reopen step of such a call
\* sets eye_l_height_next back to eye_l_height_default.
C11_CyclopsWinkIsBlink ==
    [][/\ (robo._cyclops /\ op' \in {"wink_left", "wink_right"}) =>
              /\ robo'.eye_l_height_next = 1
              /\ ~robo'.eye_l_open
              /\ WinkState(robo') = WinkState(robo)
       /\ (robo._cyclops /\ op' = "update" /\ ReopenDue(robo, now)) =>
              /\ robo'.eye_l_height_next = robo'.eye_l_height_default
              /\ WinkState(robo') = WinkState(robo)]_vars

\* C12: in the sensor loop, once a zone is committed the mood changes only on
\* a reading that has stayed in its zone for the 400 ms window (so a reading
\* that leaves the zone and is back within the window changes nothing), and a
\* reading that has stayed in its zone for longer than the window has its
\* zone's mood committed.
C12_ZoneDebounce ==
    [][(op' = "loop" /\ app.current_distance_cm # None) =>
          /\ (app.last_zone # None /\ robo'._mood # robo._mood) =>
                 now - Val(held) >= 400
          /\ now - Val(held) > 400 =>
                 robo'._mood = mood_of_zone(zone_of(Val(app.current_distance_cm)))]_vars

\* C13: in every state the left eye's target keeps both eyes inside the
\* display: 0 <= eye_l_x_next <= screen_width - (left width + spacing + right
\* width) and 0 <= eye_l_y_next <= screen_height - left height, with the
\* current sizes.
C13_TargetInsideDisplay ==
    /\ 0 <= robo.eye_l_x_next
    /\ robo.eye_l_x_next <= robo.screen_width
          - (robo.eye_l_width_current + robo.space_between_current + robo.eye_r_width_current)
    /\ 0 <= robo.eye_l_y_next
    /\ robo.eye_l_y_next <= robo.screen_height - robo.eye_l_height_current

\* the update() that has just run at clock reading t fired the auto-idle: the
\* tick was processed with idle on and _next_idle reached
IdleFired(self, t) ==
    /\ t - self.fps_timer >= self.frame_interval
    /\ self.idle
    /\ t >= self._next_idle

\* C14: every update() in which auto-idle fires and writes a target leaves
\* 0 <= eye_l_x_next <= screen_width - (left width + spacing + right width,
\* the latter 0 in cyclops mode) and 0 <= eye_l_y_next <= screen_height - left
\* height, with the sizes as they were when it fired; when the reposition
\* raises instead, the y target is not written.
C14_IdleTargetInBounds ==
    [][(op' = "update" /\ IdleFired(robo, now')) =>
          LET span == robo.eye_l_width_current + robo.space_between_current
                        + (IF robo._cyclops THEN 0 ELSE robo.eye_r_width_current)
              x_ok == 0 <= robo'.eye_l_x_next /\ robo'.eye_l_x_next <= robo.screen_width - span
              y_ok == /\ 0 <= robo'.eye_l_y_next
                      /\ robo'.eye_l_y_next <= robo.screen_height - robo.eye_l_height_current
          IN  IF raised' = "" THEN x_ok /\ y_ok
              ELSE /\ robo'.eye_l_y_next = robo.eye_l_y_next
                   /\ (x_ok \/ robo'.eye_l_x_next = robo.eye_l_x_next)]_vars

\* C14 witness: auto-idle has just fired in cyclops mode and drawn the largest
\* x target, 400 - (80 + 60), the right width counted as 0.
C14_Witness ==
    /\ op = "update"
    /\ robo._cyclops
    /\ robo.idle
    /\ robo._next_idle > now
    /\ robo.eye_l_x_next = 260

\* C15: update() never raises, whatever the configuration calls made before
\* it and also on the ticks where auto-idle fires.
C15_UpdateNeverRaises ==
    op = "update" => raised = ""

\* the update() that has just run at clock reading t fired the auto blink: the
\* tick was processed with the auto blinker on and _next_blink reached
AutoBlinkFired(self, t) ==
    /\ t - self.fps_timer >= self.frame_interval
    /\ self.autoblinker
    /\ t >= self._next_blink

\* the displacement the confuse jitter adds to x in an update() at clock reading t
ConfuseShift(self, t) ==
    IF self._confused /\ t - self.confused_animation_timer < 500
    THEN (IF (t \div 80) % 2 # 0 THEN -20 ELSE 20)
    ELSE 0

\* C16: a processed tick runs auto-blink and auto-idle before the
\* interpolation and the jitter after it: with two eyes, the update() in which
\* the auto blink fires leaves each height_current halfway between its old
\* value and 1, and the update() in which auto-idle fires leaves eye_l_x and
\* eye_l_y halfway between their old value and the target just drawn, the
\* confuse displacement added on top of x.
C16_TickOrder ==
    [][(op' = "update" /\ raised' = "") =>
          /\ (AutoBlinkFired(robo, now') /\ ~robo._cyclops) =>
                 /\ robo'.eye_l_height_current = (robo.eye_l_height_current + 1) \div 2
                 /\ robo'.eye_r_height_current = (robo.eye_r_height_current + 1) \div 2
          /\ IdleFired(robo, now') =>
                 /\ robo'.eye_l_x = (robo.eye_l_x + robo'.eye_l_x_next) \div 2
                                      + ConfuseShift(robo, now')
                 /\ robo'.eye_l_y = (robo.eye_l_y + robo'.eye_l_y_next) \div 2]_vars

\* C16 witness: one update() has fired the auto blink and auto-idle while the
\* eyes were shaking: the eyes are half closed, x is displaced off the halfway
\* point to a target at the right end.
C16_Witness ==
    /\ op = "update"
    /\ robo._confused
    /\ robo._next_blink > now
    /\ robo._next_idle > now
    /\ robo.eye_l_height_current = 40
    /\ robo.eye_l_x_next = 180
    /\ robo.eye_l_x # (90 + 180) \div 2

\* the engine with the fields a reopen step writes taken from other
Reopened(self, other) ==
    [self EXCEPT !.sequences = other.sequences,
                 !.eye_l_height_next = other.eye_l_height_next,
                 !.eye_r_height_next = other.eye_r_height_next,
                 !.eye_l_open = other.eye_l_open,
                 !.eye_r_open = other.eye_r_open]

\* C17: an update() that comes less than frame_interval ms after the last
\* processed tick changes nothing but what the due sequence steps it runs
\* change (done flags, height_next and open flags): no blink is added, and
\* fps_timer, every *_current value, position and timer stay as they were;
\* when no step is due it changes nothing at all.
C17_CoalescedUpdate ==
    [][(op' = "update" /\ now' - robo.fps_timer < robo.frame_interval) =>
          /\ Reopened(robo', robo) = robo
          /\ Len(robo'.sequences) = Len(robo.sequences)
          /\ fired' = <<>> => robo' = robo
          /\ raised' = ""]_vars

\* C17 witness: a coalesced update() has just run a due reopen step while the
\* auto blink was due, a wink had expired and the eyes were shaking.
C17_Witness ==
    /\ op = "update"
    /\ fired # <<>>
    /\ now - robo.fps_timer < robo.frame_interval
    /\ now > robo.fps_timer
    /\ robo.autoblinker /\ now >= robo._next_blink
    /\ robo._wink_left /\ now - robo.wink_timer > 300
    /\ robo._confused

\* the sequence blink() adds at clock reading t: one reopen step of both eyes
\* at 120 ms, started at t
BlinkSequence(t) ==
    [name |-> "blink", _start |-> <<t>>,
     steps |-> <<[done |-> FALSE, ms_timing |-> 120,
                  callback |-> [left |-> TRUE, right |-> TRUE]]>>]

\* C18: the update() of a processed tick with the auto blinker on and
\* now >= _next_blink blinks both eyes (both height_next are 1 and a reopen
\* sequence is added) and sets _next_blink within
\* [now + blink_interval, now + blink_interval + blink_interval_variation];
\* every other update() adds no blink and leaves _next_blink as it was.
C18_AutoBlink ==
    [][op' = "update" =>
          IF AutoBlinkFired(robo, now')
          THEN /\ robo'.sequences = Append(Sequences_update(robo, now').self.sequences,
                                           BlinkSequence(now'))
               /\ robo'.eye_l_height_next = 1
               /\ robo'.eye_r_height_next = 1
               /\ robo'._next_blink >= now' + robo.blink_interval
               /\ robo'._next_blink <= now' + robo.blink_interval + robo.blink_interval_variation
          ELSE /\ Len(robo'.sequences) = Len(robo.sequences)
               /\ robo'._next_blink = robo._next_blink]_vars

\* C18 witness: the auto blink has just fired for the first time, 1200 ms
\* after it was switched on, and drew the largest jitter.
C18_Witness ==
    /\ op = "update"
    /\ robo.autoblinker
    /\ Len(robo.sequences) = 1
    /\ robo.sequences[1]._start = <<now>>
    /\ robo.eye_l_height_next = 1
    /\ robo._next_blink = now + 2000

\* C19: with two eyes, blink() with no arguments leaves both eyes marked
\* closed (eye_l_open and eye_r_open are both False), and an update() in
\* which no reopen step fires leaves the marks as they were.
C19_BlinkMarksClosed ==
    [][/\ Blink(None, None) => (~robo'.eye_l_open /\ ~robo'.eye_r_open)
       /\ (op' = "update" /\ fired' = <<>>) =>
              /\ robo'.eye_l_open = robo.eye_l_open
              /\ robo'.eye_r_open = robo.eye_r_open]_vars

\* the interpolated sizes: the value in before, the target in target and the
\* value in after, of each
LerpSteps(before, target, after) ==
    { <<before.eye_l_width_current, target.eye_l_width_next, after.eye_l_width_current>>,
      <<before.eye_r_width_current, target.eye_r_width_next, after.eye_r_width_current>>,
      <<before.eye_l_height_current, target.eye_l_height_next, after.eye_l_height_current>>,
      <<before.eye_r_height_current, target.eye_r_height_next, after.eye_r_height_current>>,
      <<before.eye_l_radius_current, target.eye_l_radius_next, after.eye_l_radius_current>>,
      <<before.eye_r_radius_current, target.eye_r_radius_next, after.eye_r_radius_current>>,
      <<before.space_between_current, target.space_between_next, after.space_between_current>> }

\* v lies between a and b, inclusive
Between(a, b, v) ==
    /\ (IF a <= b THEN a ELSE b) <= v
    /\ v <= (IF a <= b THEN b ELSE a)

\* C20: after the update() of a processed tick each interpolated size (width,
\* height and radius of both eyes, and the spacing) lies between its value
\* before the tick and the *_next the tick interpolates toward, inclusive;
\* that *_next is the one in force after the tick's sequences and auto blink.
C20_NoOvershoot ==
    [][(/\ op' = "update"
        /\ raised' = ""
        /\ ~frame_limited(Sequences_update(robo, now').self, now')) =>
           \A jb \in Picks :
               \A p \in LerpSteps(robo,
                                  update_head(Sequences_update(robo, now').self, now', jb),
                                  robo') :
                   Between(p[1], p[2], p[3])]_vars

\* C20 witness: the tick in which the reopen step of a blink fired has taken
\* the left eye's height from 40 half way to 80, while the width and the
\* radius are on their way down to 15 and the spacing on its way up to 121.
C20_Witness ==
    /\ op = "update"
    /\ fired # <<>>
    /\ robo.eye_l_height_current = 60
    /\ robo.eye_l_height_next = 80
    /\ robo.eye_l_radius_next = 15
    /\ robo.eye_l_radius_current > 15
    /\ robo.eye_l_width_next = 15
    /\ robo.eye_l_width_current > 15
    /\ robo.space_between_next = 121
    /\ robo.space_between_current < 121

\* C21: a turn of the sensor loop that finds a reading d while no zone
\* cooldown is in force (now >= zone_cooldown_until) leaves the mood CURIOUS
\* when d <= 15, HAPPY when 15 < d <= 35, DEFAULT when 35 < d <= 60 and TIRED
\* when d > 60; a turn that finds no reading leaves the mood as it was.
C21_ThresholdMood ==
    [][op' = "loop" =>
          IF app.current_distance_cm = None
          THEN robo'._mood = robo._mood
          ELSE now >= app.zone_cooldown_until =>
                   LET d == Val(app.current_distance_cm)
                   IN  robo'._mood = IF d <= 15 THEN CURIOUS
                                     ELSE IF d <= 35 THEN HAPPY
                                     ELSE IF d <= 60 THEN DEFAULT
                                     ELSE TIRED]_vars

\* C21 witness: a turn of the loop after the first has committed a reading of
\* exactly 35 cm with no cooldown in force, and the mood is HAPPY.
C21_Witness ==
    /\ op = "loop"
    /\ app.current_distance_cm = Some(35)
    /\ app.last_zone = Some("mid")
    /\ app.zone_cooldown_until > 400
    /\ app.zone_cooldown_until = now - 100 + 400
    /\ robo._mood = HAPPY

\* C22: with two eyes, blinks of both eyes and winks of the left eye, the left
\* eye's height_next stays 1 through a blink's reopen step while a wink of
\* the eye is within its 300 ms, and through a wink's expiry while a blink's
\* reopen step is pending.
C22_BlinkAndWinkCompose ==
    [][/\ (/\ op' = "update"
           /\ fired' # <<>>
           /\ robo'._wink_left
           /\ now' - robo'.wink_timer <= robo'.wink_duration) =>
              robo'.eye_l_height_next = 1
       /\ (/\ op' = "update"
           /\ robo._wink_left
           /\ ~robo'._wink_left
           /\ \E id \in StepIds(robo') :
                 /\ robo'.sequences[id[1]]._start # None
                 /\ ~robo'.sequences[id[1]].steps[id[2]].done) =>
              robo'.eye_l_height_next = 1]_vars

\* C23: with eye_l_x_next and eye_l_y_next fixed and the eyes at rest when a
\* confuse (laugh) starts, the jitter does not accumulate: a processed tick
\* with confuse (laugh) active that finds eye_l_x (eye_l_y) within 20 (15) of
\* its target leaves it within 20 (15) of its target.
C23_JitterIsOverlay ==
    [][(op' = "update" /\ robo'.fps_timer = now') =>
          /\ (/\ robo'._confused
              /\ Abs(robo.eye_l_x - robo.eye_l_x_next) <= 20) =>
                 Abs(robo'.eye_l_x - robo'.eye_l_x_next) <= 20
          /\ (/\ robo'._laugh
              /\ Abs(robo.eye_l_y - robo.eye_l_y_next) <= 15) =>
                 Abs(robo'.eye_l_y - robo'.eye_l_y_next) <= 15]_vars

\* C24: confuse(), laugh() and update() leave eye_l_x_next and eye_l_y_next
\* as they were; a processed tick with confuse (laugh) active adds the same
\* displacement to the interpolated x (y) of both eyes: -20 (-15) when
\* (now // 80) % 2 is 1 and +20 (+15) when it is 0.
C24_JitterLeavesTargets ==
    [][/\ op' \in {"confuse", "laugh", "update"} =>
              /\ robo'.eye_l_x_next = robo.eye_l_x_next
              /\ robo'.eye_l_y_next = robo.eye_l_y_next
       /\ (op' = "update" /\ robo'.fps_timer = now') =>
              /\ (robo._confused /\ now' - robo.confused_animation_timer < 500) =>
                     LET s == IF (now' \div 80) % 2 = 1 THEN -20 ELSE 20
                     IN  /\ robo'.eye_l_x = (robo.eye_l_x + robo.eye_l_x_next) \div 2 + s
                         /\ robo'.eye_r_x = (robo.eye_r_x + robo'.eye_r_x_next) \div 2 + s
              /\ (robo._laugh /\ now' - robo.laugh_animation_timer < 500) =>
                     LET s == IF (now' \div 80) % 2 = 1 THEN -15 ELSE 15
                     IN  /\ robo'.eye_l_y = (robo.eye_l_y + robo.eye_l_y_next) \div 2 + s
                         /\ robo'.eye_r_y = (robo.eye_r_y + robo'.eye_r_y_next) \div 2 + s]_vars

\* C24 witness: a tick in an odd time bucket has shaken both eyes to the left
\* and upward while confuse and laugh were both active.
C24_Witness ==
    /\ op = "update"
    /\ robo._confused
    /\ robo._laugh
    /\ (now \div 80) % 2 = 1
    /\ robo.eye_l_x < robo.eye_l_x_next
    /\ robo.eye_r_x < robo.eye_r_x_next
    /\ robo.eye_l_y < robo.eye_l_y_next
    /\ robo.eye_l_x_next = 90

\* C25: confuse() (laugh()) sets _confused (_laugh) and restarts the window at
\* the call, adding no sequence; a processed tick keeps the flag exactly while
\* less than 500 ms have passed since the latest call and clears it otherwise;
\* and with the loop turning, a flag whose window ends within the run is
\* cleared unless a later call moves the end of the window past the run.
C25_WindowRestarts ==
    /\ [][/\ op' = "confuse" =>
                 /\ robo'._confused
                 /\ robo'.confused_animation_timer = now
                 /\ robo'.sequences = robo.sequences
          /\ op' = "laugh" =>
                 /\ robo'._laugh
                 /\ robo'.laugh_animation_timer = now
                 /\ robo'.sequences = robo.sequences
          /\ (op' = "update" /\ robo'.fps_timer = now') =>
                 /\ robo'._confused =
                       (robo._confused /\ now' - robo.confused_animation_timer < 500)
                 /\ robo'._laugh =
                       (robo._laugh /\ now' - robo.laugh_animation_timer < 500)
                 /\ robo'.confused_animation_timer = robo.confused_animation_timer
                 /\ robo'.laugh_animation_timer = robo.laugh_animation_timer]_vars
    /\ (robo._confused /\ robo.confused_animation_timer + 500 <= JitterTicks * 100)
           ~> (~robo._confused \/ robo.confused_animation_timer + 500 > JitterTicks * 100)
    /\ (robo._laugh /\ robo.laugh_animation_timer + 500 <= JitterTicks * 100)
           ~> (~robo._laugh \/ robo.laugh_animation_timer + 500 > JitterTicks * 100)

\* C25 witness: confuse() was called again 100 ms into a running window, and
\* the tick 500 ms after the first call has left the flag set.
C25_Witness ==
    /\ op = "update"
    /\ now = 500
    /\ robo._confused
    /\ robo.confused_animation_timer = 100
    /\ robo.eye_l_x # robo.eye_l_x_next

\* C26: start() on a sequence whose steps have all fired records the clock
\* reading as the new reference time and clears the done flag of every step.
C26_StartRearms ==
    [][\A i \in 1..Len(robo.sequences) :
          (/\ SeqStart(i)
           /\ robo.sequences[i].steps # <<>>
           /\ \A j \in 1..Len(robo.sequences[i].steps) : robo.sequences[i].steps[j].done) =>
              /\ robo'.sequences[i]._start = Some(now)
              /\ \A j \in 1..Len(robo.sequences[i].steps) :
                    ~robo'.sequences[i].steps[j].done]_vars

\* C27: after the update() of a processed tick eye_r_x_next equals
\* eye_l_x_next + eye_l_width_current + space_between_current, with the width
\* and spacing that tick has just interpolated, and eye_r_y_next equals
\* eye_l_y_next; no other operation writes eye_r_x_next or eye_r_y_next.
C27_RightEyeCoupled ==
    [][IF op' = "update"
       THEN (robo'.fps_timer = now' /\ raised' = "") =>
                /\ robo'.eye_r_x_next =
                      robo'.eye_l_x_next
                        + (robo.eye_l_width_current + robo.eye_l_width_next) \div 2
                        + (robo.space_between_current + robo.space_between_next) \div 2
                /\ robo'.eye_r_y_next = robo'.eye_l_y_next
       ELSE /\ robo'.eye_r_x_next = robo.eye_r_x_next
            /\ robo'.eye_r_y_next = robo.eye_r_y_next]_vars

\* C27 witness: in one tick auto-idle has drawn the target 180 for the left
\* eye and the width has gone from 80 half way to 300; the right eye's target
\* is 180 + 190 + 60.
C27_Witness ==
    /\ op = "update"
    /\ raised = ""
    /\ robo.idle
    /\ robo._next_idle > now
    /\ robo.eye_l_x_next = 180
    /\ robo.eye_l_width_current = 190
    /\ robo.eye_l_width_next = 300
    /\ robo.eye_r_x_next = 430

\* C28: in every state each of eyes_width, eyes_height and eyes_radius, given
\* a value for either eye, both or none, writes that value to the *_next and
\* the *_default of each eye it is given one for and nothing else, and
\* eyes_spacing writes its value to space_between_next and
\* space_between_default and nothing else; and with two eyes an update() in
\* which a blink's reopen step runs or a wink expires leaves the height_next of
\* the eye it reopens at the eye's height_default, which only eyes_height
\* changes.
C28_SizingSetsDefault ==
    [][/\ \A left \in {None, Some(60)}, right \in {None, Some(50)} :
             LET Given(l_fields, r_fields) ==
                     [f \in DOMAIN robo |->
                         IF left # None /\ f \in l_fields THEN Val(left)
                         ELSE IF right # None /\ f \in r_fields THEN Val(right)
                         ELSE robo[f]]
             IN  /\ eyes_width(robo, left, right) =
                        Given({"eye_l_width_next", "eye_l_width_default"},
                              {"eye_r_width_next", "eye_r_width_default"})
                 /\ eyes_height(robo, left, right) =
                        Given({"eye_l_height_next", "eye_l_height_default"},
                              {"eye_r_height_next", "eye_r_height_default"})
                 /\ eyes_radius(robo, left, right) =
                        Given({"eye_l_radius_next", "eye_l_radius_default"},
                              {"eye_r_radius_next", "eye_r_radius_default"})
       /\ \A space \in {40} :
             eyes_spacing(robo, space) =
                 [f \in DOMAIN robo |->
                     IF f \in {"space_between_next", "space_between_default"}
                     THEN space ELSE robo[f]]
       /\ op' # "eyes_height" =>
             /\ robo'.eye_l_height_default = robo.eye_l_height_default
             /\ robo'.eye_r_height_default = robo.eye_r_height_default
       /\ (op' = "update" /\ robo'.fps_timer = now') =>
             LET reopens == fired' # <<>>
                 expires == /\ robo._wink_left \/ robo._wink_right
                            /\ now' - robo.wink_timer > 300
             IN  /\ (reopens \/ (expires /\ robo._wink_left)) =>
                        robo'.eye_l_height_next = robo.eye_l_height_default
                 /\ (reopens \/ (expires /\ robo._wink_right)) =>
                        robo'.eye_r_height_next = robo.eye_r_height_default]_vars

\* C28 witness: after eyes_height(60) for the left eye alone, the reopen step
\* of a blink has restored the left eye to 60 and the right eye to 80.
C28_Witness ==
    /\ op = "update"
    /\ fired # <<>>
    /\ robo.eye_l_height_default = 60
    /\ robo.eye_l_height_next = 60
    /\ robo.eye_r_height_default = 80
    /\ robo.eye_r_height_next = 80
    /\ robo.eye_l_height_current < 60

\* C29: under any interleaving of blink() calls, set_cyclops toggles and
\* ticks, once the reopen step of every blink has run and cyclops is off, both
\* eyes have height_next equal to their height_default and are marked open.
C29_NoEyeStuckClosed ==
    (/\ robo.sequences # <<>>
     /\ \A id \in StepIds(robo) : robo.sequences[id[1]].steps[id[2]].done
     /\ ~robo._cyclops) =>
        /\ robo.eye_l_height_next = robo.eye_l_height_default
        /\ robo.eye_r_height_next = robo.eye_r_height_default
        /\ robo.eye_l_open
        /\ robo.eye_r_open

====
